---- MODULE Spec2Model ----
(***************************************************************************)
(* Model of league_entries_csv.py: the command-line dispatch, the filter   *)
(* validation and the pagination loop of get_league_entries_as_csv, with   *)
(* the remote LEAGUE-v4 resource as the environment.                       *)
(*                                                                         *)
(* Strings that the program takes apart or builds (the divisions argument, *)
(* division labels) are sequences of one-character strings; strings that   *)
(* are only compared (queue, tier, get_all) are TLA+ strings.              *)
(***************************************************************************)
EXTENDS Integers, Sequences, FiniteSets, TLC

VARIABLES pc, api_key, args, queue, tier, divisions, get_all, err,
          more_results, page, current_division, result, fetches, exc, files,
          filename

vars == <<pc, api_key, args, queue, tier, divisions, get_all, err,
          more_results, page, current_division, result, fetches, exc, files,
          filename>>

(***************************************************************************)
(* Bounds                                                                  *)
(***************************************************************************)
MaxLen == 3
MaxPages == 2
PageSize == 2
MaxArgLen == 6
MaxFetches == MaxLen * (MaxPages + 1)

(***************************************************************************)
(* Module constants                                                        *)
(***************************************************************************)
DivI == <<"I">>
DivII == <<"I", "I">>
DivIII == <<"I", "I", "I">>
DivIV == <<"I", "V">>
DivV == <<"V">>
DivX == <<"X">>

QUEUES == <<"RANKED_SOLO_5x5", "RANKED_FLEX_SR", "RANKED_FLEX_TT">>

TIERS == <<"IRON", "BRONZE", "SILVER", "GOLD", "PLATINUM", "EMERALD", "DIAMOND",
           "MASTER", "GRANDMASTER", "CHALLENGER">>

DIVISIONS == <<DivI, DivII, DivIII, DivIV>>

(***************************************************************************)
(* Python list primitives                                                  *)
(***************************************************************************)
Range(s) == {s[i] : i \in 1..Len(s)}

\* x in s
In(x, s) == \E i \in 1..Len(s) : s[i] = x

\* s.index(x), 1-based; only used where x in s
Index(s, x) == CHOOSE i \in 1..Len(s) : s[i] = x /\ \A j \in 1..(i - 1) : s[j] # x

\* s[-1]
Last(s) == s[Len(s)]

\* all sequences over S of length 0..n
SeqsUpTo(S, n) == UNION {[1..k -> S] : k \in 0..n}

\* str.split(sep) on a sequence of characters: the pieces between separators,
\* empty pieces included; the empty string gives one empty piece
RECURSIVE SplitFrom(_, _, _, _)
SplitFrom(s, sep, i, piece) ==
    IF i > Len(s) THEN <<piece>>
    ELSE IF s[i] = sep THEN <<piece>> \o SplitFrom(s, sep, i + 1, <<>>)
    ELSE SplitFrom(s, sep, i + 1, Append(piece, s[i]))

Split(s, sep) == SplitFrom(s, sep, 1, <<>>)

(***************************************************************************)
(* is_special_tier                                                         *)
(***************************************************************************)
IsSpecialTier(t) ==
    \E i \in Index(TIERS, "MASTER")..Index(TIERS, "CHALLENGER") : TIERS[i] = t

(***************************************************************************)
(* Argument checks of get_league_entries_as_csv.  The error text is a      *)
(* sequence of messages, one record per message appended to err.           *)
(***************************************************************************)
Msg(rule, invalid) == [rule |-> rule, invalid |-> invalid]

\* for division in divisions: if division not in DIVISIONS: invalid_divs.append(division)
RECURSIVE InvalidDivsFrom(_, _, _)
InvalidDivsFrom(divs, i, invalid_divs) ==
    IF i > Len(divs) THEN invalid_divs
    ELSE InvalidDivsFrom(divs, i + 1,
            IF ~In(divs[i], DIVISIONS) THEN Append(invalid_divs, divs[i])
            ELSE invalid_divs)

InvalidDivsFirstOnly(divs) ==
    IF \E i \in 1..Len(divs) : ~In(divs[i], DIVISIONS)
    THEN <<divs[CHOOSE i \in 1..Len(divs) :
                /\ ~In(divs[i], DIVISIONS)
                /\ \A j \in 1..(i - 1) : In(divs[j], DIVISIONS)]>>
    ELSE <<>>

InvalidDivs(divs) == InvalidDivsFrom(divs, 1, <<>>)

\* tier.lower(), on the tier strings of the model
Lower(t) ==
    CASE t = "IRON" -> "iron"
      [] t = "BRONZE" -> "bronze"
      [] t = "SILVER" -> "silver"
      [] t = "GOLD" -> "gold"
      [] t = "PLATINUM" -> "platinum"
      [] t = "EMERALD" -> "emerald"
      [] t = "DIAMOND" -> "diamond"
      [] t = "MASTER" -> "master"
      [] t = "GRANDMASTER" -> "grandmaster"
      [] t = "CHALLENGER" -> "challenger"
      [] OTHER -> t

QueueCheck(q) == IF ~In(q, QUEUES) THEN <<Msg("queue", <<>>)>> ELSE <<>>

TierCheckIgnoreCase(t) ==
    IF ~(\E i \in 1..Len(TIERS) : Lower(TIERS[i]) = Lower(t))
    THEN <<Msg("tier", <<>>)>> ELSE <<>>

TierCheck(t) == IF ~In(t, TIERS) THEN <<Msg("tier", <<>>)>> ELSE <<>>

DivisionsCheck(t, divs) ==
    IF ~(\E i \in Index(TIERS, "MASTER")..Index(TIERS, "CHALLENGER") : TIERS[i] = t)
    THEN IF Len(divs) = 0 THEN <<Msg("no_divisions", <<>>)>>
         ELSE IF Len(InvalidDivs(divs)) > 0
              THEN <<Msg("invalid_divisions", InvalidDivs(divs))>>
              ELSE <<>>
    ELSE <<>>

GetAllCheck(g) == IF g # "True" /\ g # "False" THEN <<Msg("get_all", <<>>)>> ELSE <<>>

ValidateFirstOnly(q, t, divs, g) ==
    IF QueueCheck(q) # <<>> THEN QueueCheck(q)
    ELSE IF TierCheck(t) # <<>> THEN TierCheck(t)
    ELSE IF DivisionsCheck(t, divs) # <<>> THEN DivisionsCheck(t, divs)
    ELSE GetAllCheck(g)

Validate(q, t, divs, g) ==
    QueueCheck(q) \o TierCheck(t) \o DivisionsCheck(t, divs) \o GetAllCheck(g)

(***************************************************************************)
(* The remote resource.  A decoded response is a JSON array (kind "list",  *)
(* elems its entries) or a JSON object (kind "dict", elems its keys in     *)
(* order, entries the value under the key "entries").  An entry is         *)
(* identified by the division and page it was served for and its position.*)
(***************************************************************************)
Key(k) == <<k>>

EntryOf(d, p, i) == <<d, p, i>>

ListResp(d, p, n) ==
    [kind |-> "list", elems |-> [i \in 1..n |-> EntryOf(d, p, i)], entries |-> <<>>]

LeagueResp(n) ==
    [kind |-> "dict",
     elems |-> <<Key("tier"), Key("leagueId"), Key("queue"), Key("name"), Key("entries")>>,
     entries |-> [i \in 1..n |-> EntryOf(<<>>, 1, i)]]

\* the error body of a rejected request: {"status": {"message": ..., "status_code": ...}}
StatusResp == [kind |-> "dict", elems |-> <<Key("status")>>, entries |-> <<>>]

\* len(resp)
RespLen(resp) == Len(resp.elems)

\* What requests.get(url).json() can return for the request the loop builds.
\* Without a token every request is rejected; a division serves at most
\* MaxPages non-empty pages of PageSize entries.
Responses(key, special, d, p) ==
    IF key = "" THEN {StatusResp}
    ELSE IF special THEN {LeagueResp(n) : n \in 0..PageSize} \cup {ListResp(d, p, 0)}
    ELSE IF p > MaxPages THEN {ListResp(d, p, 0)}
    ELSE {ListResp(d, p, 0), ListResp(d, p, PageSize)}

(***************************************************************************)
(* One pass of the while loop after the response has arrived.  The loop's  *)
(* locals are a record; brk records a break statement.                     *)
(***************************************************************************)
Locals == [result |-> result, page |-> page, current_division |-> current_division,
           more_results |-> more_results, brk |-> FALSE]

\* divisions[divisions.index(current_division) + 1]
NextDivision(divs, cur) == divs[Index(divs, cur) + 1]

NextPageStuck(p) == p

\* page += 1
NextPage(p) == p + 1

PrependResult(res, resp) == <<resp>> \o res

\* result.append(resp)
AppendResult(res, resp) == Append(res, resp)

OnNonEmptyNoSpecialBreak(st, resp) ==
    LET st1 == [st EXCEPT !.result = AppendResult(st.result, resp)] IN
    IF get_all = "True" THEN [st1 EXCEPT !.page = NextPage(st.page)]
    ELSE IF get_all = "False" /\ Len(divisions) <= 1 THEN [st1 EXCEPT !.brk = TRUE]
    ELSE IF get_all = "False" /\ Len(divisions) > 1
            /\ st.current_division # Last(divisions)
         THEN [st1 EXCEPT !.current_division = NextDivision(divisions, st.current_division)]
    ELSE [st1 EXCEPT !.brk = TRUE]

\* the branch len(resp) > 0
OnNonEmpty(st, resp) ==
    LET st1 == [st EXCEPT !.result = AppendResult(st.result, resp)] IN
    IF IsSpecialTier(tier) THEN [st1 EXCEPT !.brk = TRUE]
    ELSE IF get_all = "True" THEN [st1 EXCEPT !.page = NextPage(st.page)]
    ELSE IF get_all = "False" /\ Len(divisions) <= 1 THEN [st1 EXCEPT !.brk = TRUE]
    ELSE IF get_all = "False" /\ Len(divisions) > 1
            /\ st.current_division # Last(divisions)
         THEN [st1 EXCEPT !.current_division = NextDivision(divisions, st.current_division)]
    ELSE [st1 EXCEPT !.brk = TRUE]

OnEmptyNoPageReset(st) ==
    IF IsSpecialTier(tier) THEN [st EXCEPT !.more_results = FALSE]
    ELSE IF st.current_division = Last(divisions) THEN [st EXCEPT !.more_results = FALSE]
    ELSE [st EXCEPT !.current_division = NextDivision(divisions, st.current_division)]

\* the else branch: an empty response
OnEmpty(st) ==
    IF IsSpecialTier(tier) THEN [st EXCEPT !.more_results = FALSE]
    ELSE IF st.current_division = Last(divisions) THEN [st EXCEPT !.more_results = FALSE]
    ELSE [st EXCEPT !.current_division = NextDivision(divisions, st.current_division),
                    !.page = 1]

LoopBody(st, resp) == IF RespLen(resp) > 0 THEN OnNonEmpty(st, resp) ELSE OnEmpty(st)

(***************************************************************************)
(* After the loop: the rows of the data frame and the file.                *)
(***************************************************************************)
\* for page in result: for entry in page: one row per entry
RECURSIVE Flatten(_)
Flatten(res) == IF res = <<>> THEN <<>> ELSE Head(res).elems \o Flatten(Tail(res))

\* result = result[0]['entries'] raises when result is empty or has no such key
SpecialRows(res) ==
    IF Len(res) = 0 THEN [exc |-> "IndexError", rows |-> <<>>]
    ELSE IF res[1].kind # "dict" THEN [exc |-> "TypeError", rows |-> <<>>]
    ELSE IF ~In(Key("entries"), res[1].elems) THEN [exc |-> "KeyError", rows |-> <<>>]
    ELSE [exc |-> "none", rows |-> res[1].entries]

Rows(res) ==
    IF IsSpecialTier(tier) THEN SpecialRows(res)
    ELSE [exc |-> "none", rows |-> Flatten(res)]

(***************************************************************************)
(* The file name, without its timestamp: the tier and the two tokens.      *)
(***************************************************************************)
\* for division in divisions: filename_divisions += division, and '-' after it
\* when division != divisions[-1]
RECURSIVE FilenameDivisionsFrom(_, _, _)
FilenameDivisionsFrom(divs, i, filename_divisions) ==
    IF i > Len(divs) THEN filename_divisions
    ELSE FilenameDivisionsFrom(divs, i + 1,
            IF divs[i] # Last(divs)
            THEN (filename_divisions \o divs[i]) \o <<"-">>
            ELSE filename_divisions \o divs[i])

FilenameDivisions(divs) ==
    IF Len(divs) > 1 THEN FilenameDivisionsFrom(divs, 1, <<>>)
    ELSE <<"T", "I", "E", "R">>

FilenamePages(t, g) ==
    IF IsSpecialTier(t) THEN "ALL"
    ELSE IF g = "True" THEN "PAGES-ALL"
    ELSE IF g = "False" THEN "PAGE-1"
    ELSE "PAGES-UNSPECIFIED"

Filename(t, divs, g) ==
    [tier |-> t, divisions |-> FilenameDivisions(divs), pages |-> FilenamePages(t, g)]

\* no file name has been built
NoFilename == [tier |-> "", divisions |-> <<>>, pages |-> ""]

(***************************************************************************)
(* Inputs                                                                  *)
(***************************************************************************)
QueueInputs == {"RANKED_SOLO_5x5", "RANKED_SOLO"}
TierInputs == {"GOLD", "MASTER", "GRANDMASTER", "CHALLENGER", "gold", "master"}
GetAllInputs == {"True", "False", "true"}
DivInputs == {DivI, DivII, DivIII, DivV, DivX}
ArgChars == {"I", "V", ","}

Argv4 == {<<"league_entries_csv.py", "oc1", q, t>> : q \in QueueInputs, t \in TierInputs}

Argv6 == {<<"league_entries_csv.py", "oc1", a[1], a[2], a[3], a[4]>> :
            a \in QueueInputs \X TierInputs \X SeqsUpTo(ArgChars, MaxArgLen) \X GetAllInputs}

ArgvOther ==
    {<<"league_entries_csv.py">>, <<"league_entries_csv.py", "oc1", "RANKED_SOLO_5x5">>}
    \cup {<<"league_entries_csv.py", "oc1", "RANKED_SOLO_5x5", t, DivI>> : t \in TierInputs}
    \cup {<<"league_entries_csv.py", "oc1", "RANKED_SOLO_5x5", t, DivI, "True", "True">> :
            t \in TierInputs}

(***************************************************************************)
(* State machine                                                           *)
(***************************************************************************)
\* The module is either run as a script (the __main__ block runs on sys.argv)
\* or imported (a caller invokes get_league_entries_as_csv).  api_key is the
\* stripped content of api_key.txt, or '' when the file is absent.
Init ==
    /\ api_key \in {"", "RGAPI"}
    /\ \/ pc = "main" /\ args \in Argv4 \cup Argv6 \cup ArgvOther
       \/ pc = "imported" /\ args = <<>>
    /\ queue = "" /\ tier = "" /\ divisions = <<>> /\ get_all = ""
    /\ err = <<>>
    /\ more_results = FALSE /\ page = 1 /\ current_division = <<>> /\ result = <<>>
    /\ fetches = <<>> /\ exc = "none" /\ files = <<>>
    /\ filename = NoFilename

\* get_league_entries_as_csv up to the first request: the argument checks and
\* either the loop's initial state or the printed error
Call(q, t, divs, g) ==
    /\ queue' = q /\ tier' = t /\ divisions' = divs /\ get_all' = g
    /\ err' = Validate(q, t, divs, g)
    /\ IF err' = <<>>
       THEN /\ pc' = "loop"
            /\ more_results' = TRUE
            /\ page' = 1
            /\ current_division' = IF Len(divs) > 0 THEN divs[1] ELSE <<>>
            /\ result' = <<>>
       ELSE /\ pc' = "invalid"
            /\ UNCHANGED <<more_results, page, current_division, result>>
    /\ UNCHANGED <<api_key, args, fetches, exc, files, filename>>

Usage ==
    /\ pc' = "usage"
    /\ UNCHANGED <<api_key, args, queue, tier, divisions, get_all, err,
                   more_results, page, current_division, result, fetches, exc, files,
                   filename>>

MainLooseArity ==
    /\ pc = "main"
    /\ IF Len(args) >= 4 /\ IsSpecialTier(args[4])
       THEN Call(args[3], args[4], <<>>, "True")
       ELSE IF Len(args) >= 6 /\ ~IsSpecialTier(args[4])
            THEN Call(args[3], args[4], Split(args[5], ","), args[6])
            ELSE Usage

Main ==
    /\ pc = "main"
    /\ IF Len(args) = 4 /\ IsSpecialTier(args[4])
       THEN Call(args[3], args[4], <<>>, "True")
       ELSE IF Len(args) = 6 /\ ~IsSpecialTier(args[4])
            THEN Call(args[3], args[4], Split(args[5], ","), args[6])
            ELSE Usage

DirectCall ==
    /\ pc = "imported"
    /\ \E q \in QueueInputs, t \in TierInputs, divs \in SeqsUpTo(DivInputs, MaxLen),
          g \in GetAllInputs : Call(q, t, divs, g)

Request == [division |-> current_division, page |-> page]

\* the state after a pass of the loop that decoded resp; when the loop is
\* left, the rest of the function runs: the rows are built and the file written.
\* (The row loop `for page in result` reuses the name page once the counter is
\* dead; the variable page keeps the counter's last value.)
AfterPass(resp, raised) ==
    LET st == LoopBody(Locals, resp)
        left == st.brk \/ ~st.more_results
        out == Rows(st.result)
    IN  /\ fetches' = Append(fetches, [req |-> Request, raised |-> raised, resp |-> resp])
        /\ more_results' = st.more_results
        /\ page' = st.page
        /\ current_division' = st.current_division
        /\ filename' = IF left THEN Filename(tier, divisions, get_all) ELSE filename
        /\ IF ~left
           THEN /\ pc' = "loop"
                /\ result' = st.result
                /\ UNCHANGED <<exc, files>>
           ELSE IF out.exc # "none"
           THEN /\ pc' = "aborted"
                /\ result' = st.result
                /\ exc' = out.exc
                /\ UNCHANGED files
           ELSE /\ pc' = "done"
                /\ result' = IF IsSpecialTier(tier) THEN out.rows ELSE st.result
                /\ files' = Append(files, [rows |-> out.rows])
                /\ UNCHANGED exc

FetchRaisesSwallowed ==
    /\ pc = "loop"
    /\ Len(fetches) < MaxFetches
    /\ AfterPass(ListResp(current_division, page, 0), TRUE)
    /\ UNCHANGED <<api_key, args, queue, tier, divisions, get_all, err>>

\* requests.get(url) or .json() raises: the exception leaves the function
FetchRaises ==
    /\ pc = "loop"
    /\ Len(fetches) < MaxFetches
    /\ fetches' = Append(fetches, [req |-> Request, raised |-> TRUE, resp |-> ListResp(<<>>, 0, 0)])
    /\ pc' = "aborted"
    /\ exc' = "fetch"
    /\ UNCHANGED <<api_key, args, queue, tier, divisions, get_all, err,
                   more_results, page, current_division, result, files, filename>>

\* The resource does not change during a run: a request that was answered
\* before gets the same answer again.
Served(req) ==
    {fetches[i].resp : i \in {j \in 1..Len(fetches) : fetches[j].req = req /\ ~fetches[j].raised}}

FetchResponds ==
    /\ pc = "loop"
    /\ Len(fetches) < MaxFetches
    /\ \E resp \in (IF Served(Request) # {} THEN Served(Request)
                     ELSE Responses(api_key, IsSpecialTier(tier), current_division, page)) :
          AfterPass(resp, FALSE)
    /\ UNCHANGED <<api_key, args, queue, tier, divisions, get_all, err>>

Next == Main \/ DirectCall \/ FetchRaises \/ FetchResponds

Spec == Init /\ [][Next]_vars

(***************************************************************************)
(* Vocabulary of the properties                                            *)
(***************************************************************************)
\* get_league_entries_as_csv has been called
Called == pc \in {"loop", "done", "aborted", "invalid"}

SpecialTiers == {"MASTER", "GRANDMASTER", "CHALLENGER"}

KnownDivision(d) == d \in {DivI, DivII, DivIII, DivIV}

UnknownDivision(d) == ~KnownDivision(d)

\* the call passed validation and is collecting for a tier with divisions
Divisioned == Called /\ err = <<>> /\ tier \notin SpecialTiers

Special == Called /\ err = <<>> /\ tier \in SpecialTiers

NoFailure == \A i \in 1..Len(fetches) : ~fetches[i].raised

\* every response so far was a non-empty page of entries
AllPagesNonEmpty ==
    \A i \in 1..Len(fetches) :
        /\ ~fetches[i].raised
        /\ fetches[i].resp.kind = "list"
        /\ Len(fetches[i].resp.elems) > 0

\* the responses of the first n fetches, in fetch order
RespUpTo(n) == [i \in 1..n |-> fetches[i].resp]

\* the concatenation of the elements of a sequence of responses
RECURSIVE ConcatElems(_)
ConcatElems(s) ==
    IF Len(s) = 0 THEN <<>>
    ELSE ConcatElems(SubSeq(s, 1, Len(s) - 1)) \o s[Len(s)].elems

CountMsg(rule) == Cardinality({i \in 1..Len(err) : err[i].rule = rule})

(***************************************************************************)
(* Properties                                                              *)
(***************************************************************************)
\* C1: for a validated divisioned filter and a resource whose divisions have
\* at most MaxPages non-empty pages each, the loop has ended by the time it
\* has made one fetch for every page slot (the non-empty pages and the empty
\* page that ends them) of every listed division.
C1_LoopTerminates ==
    (Divisioned /\ api_key # "" /\ Len(fetches) >= Len(divisions) * (MaxPages + 1))
        => pc # "loop"

\* C2: FirstPageOnly on a divisioned tier, every fetched page non-empty: the
\* finished run made exactly one fetch per element of the division list, in
\* list order, each for page 1.
C2_OneFetchPerDivision ==
    (Divisioned /\ get_all = "False" /\ AllPagesNonEmpty /\ pc = "done")
        => /\ Len(fetches) = Len(divisions)
           /\ \A i \in 1..Len(fetches) :
                fetches[i].req = [division |-> divisions[i], page |-> 1]

\* C3: AllPages with a single division: the i-th fetch requests page i of that
\* division, every fetch but the last returned a non-empty page, the loop goes
\* on exactly while pages are non-empty and ends at the first empty page, and
\* the result and the written rows are those of the pages before it.
C3_SingleDivisionAllPages ==
    (Divisioned /\ get_all = "True" /\ Len(divisions) = 1 /\ api_key # "" /\ NoFailure)
        => LET n == Len(fetches) IN
           /\ pc \in {"loop", "done"}
           /\ \A i \in 1..n : fetches[i].req = [division |-> divisions[1], page |-> i]
           /\ \A i \in 1..(n - 1) : Len(fetches[i].resp.elems) > 0
           /\ pc = "loop" => /\ \A i \in 1..n : Len(fetches[i].resp.elems) > 0
                             /\ result = RespUpTo(n)
                             /\ n <= MaxPages
           /\ pc = "done" => /\ n >= 1
                             /\ Len(fetches[n].resp.elems) = 0
                             /\ result = RespUpTo(n - 1)
                             /\ files = <<[rows |-> ConcatElems(RespUpTo(n - 1))]>>

C3_Witness ==
    /\ Divisioned /\ get_all = "True" /\ Len(divisions) = 1 /\ NoFailure
    /\ pc = "done"
    /\ Len(fetches) = 3
    /\ Len(result) = 2
    /\ Len(files[1].rows) = 2 * PageSize

\* C4: a special tier makes exactly one fetch, for page 1, and the loop is over
\* after it whatever came back; when the response is an object with an entries
\* list, the result and the written rows are that list.
C4_SpecialTierSingleFetch ==
    Special
        => /\ Len(fetches) <= 1
           /\ page = 1
           /\ pc = "loop" <=> Len(fetches) = 0
           /\ Len(fetches) = 1 => fetches[1].req.page = 1
           /\ (Len(fetches) = 1 /\ ~fetches[1].raised
                 /\ \E k \in 1..Len(fetches[1].resp.elems) :
                        fetches[1].resp.elems[k] = <<"entries">>)
                => /\ pc = "done"
                   /\ result = fetches[1].resp.entries
                   /\ files = <<[rows |-> fetches[1].resp.entries]>>

C4_Witness ==
    /\ Special /\ get_all = "False"
    /\ pc = "done"
    /\ Len(fetches) = 1
    /\ Len(result) = PageSize
    /\ files[1].rows = result

\* C5: a fetch that raises ends the run: it is the last fetch, nothing is
\* written; and a file is only ever written once, by a run without a failed
\* fetch, holding the rows of everything that was accumulated.
C5_FetchFailureIsFatal ==
    /\ \A i \in 1..Len(fetches) :
          fetches[i].raised => /\ i = Len(fetches)
                               /\ pc = "aborted"
                               /\ exc = "fetch"
                               /\ files = <<>>
    /\ files # <<>> => /\ Len(files) = 1
                       /\ pc = "done"
                       /\ NoFailure
                       /\ tier \notin SpecialTiers
                            => files[1].rows = ConcatElems(RespUpTo(Len(fetches)))
                       /\ tier \in SpecialTiers => files[1].rows = fetches[1].resp.entries
    /\ pc = "aborted" => files = <<>>

C5_Witness ==
    /\ exc = "fetch"
    /\ pc = "aborted"
    /\ Len(fetches) = 3
    /\ Len(result) = 2
    /\ files = <<>>

\* C6: without a token every fetch is rejected and the first rejected fetch
\* aborts the run: it is the only fetch, the run does not go on with the
\* rejection accumulated as a page, and no file is written.
C6_RejectedFetchAborts ==
    (api_key = "" /\ Len(fetches) > 0)
        => /\ Len(fetches) = 1
           /\ pc = "aborted"
           /\ files = <<>>

\* C7: for a special tier with a valid queue and page mode, validation succeeds
\* exactly when no division is supplied, and a supplied division means no fetch.
C7_SpecialTierValidation ==
    (Called /\ tier \in SpecialTiers /\ In(queue, QUEUES) /\ get_all \in {"True", "False"})
        => /\ err = <<>> <=> divisions = <<>>
           /\ divisions # <<>> => fetches = <<>>

\* C8: for a tier that is not special, an empty division list fails, and a list
\* with unknown labels fails with one message naming exactly the unknown
\* entries, all of them, in list order.
C8_DivisionErrors ==
    (Called /\ tier \notin SpecialTiers)
        => /\ divisions = <<>>
                => /\ pc = "invalid"
                   /\ CountMsg("no_divisions") = 1
                   /\ fetches = <<>>
           /\ (\E i \in 1..Len(divisions) : UnknownDivision(divisions[i]))
                => /\ pc = "invalid"
                   /\ CountMsg("invalid_divisions") = 1
                   /\ \A i \in 1..Len(err) :
                        err[i].rule = "invalid_divisions"
                            => err[i].invalid = SelectSeq(divisions, UnknownDivision)
                   /\ fetches = <<>>

C8_Witness ==
    /\ pc = "invalid"
    /\ tier = "GOLD"
    /\ divisions = <<DivI, DivV, DivX>>
    /\ \E i \in 1..Len(err) : err[i].invalid = <<DivV, DivX>>

\* C9: every violated rule has its message whatever else failed, no rule has a
\* message it did not earn, and fetching or writing happens exactly when the
\* accumulated error is empty.
C9_ErrorsAccumulateAndGate ==
    /\ Called
        => /\ CountMsg("queue") = (IF queue \in Range(QUEUES) THEN 0 ELSE 1)
           /\ CountMsg("tier") = (IF tier \in Range(TIERS) THEN 0 ELSE 1)
           /\ CountMsg("get_all") = (IF get_all \in {"True", "False"} THEN 0 ELSE 1)
           /\ CountMsg("no_divisions")
                = (IF tier \notin SpecialTiers /\ divisions = <<>> THEN 1 ELSE 0)
           /\ CountMsg("invalid_divisions")
                = (IF /\ tier \notin SpecialTiers
                      /\ \E i \in 1..Len(divisions) : UnknownDivision(divisions[i])
                   THEN 1 ELSE 0)
           /\ Len(err) = CountMsg("queue") + CountMsg("tier") + CountMsg("get_all")
                          + CountMsg("no_divisions") + CountMsg("invalid_divisions")
           /\ err # <<>> <=> pc = "invalid"
           /\ err = <<>> <=> pc \in {"loop", "done", "aborted"}
    /\ (fetches # <<>> \/ files # <<>>) => (Called /\ err = <<>>)
    /\ pc \in {"done", "aborted"} => fetches # <<>>

C9_Witness ==
    /\ pc = "invalid"
    /\ Len(err) = 4
    /\ fetches = <<>>
    /\ files = <<>>

\* C10: while the loop runs, and when it has finished, the result is the
\* sequence of the non-empty responses received, in fetch order, and the rows
\* written are their entries in that order.
C10_ResultInFetchOrder ==
    LET nonEmpty(f) == ~f.raised /\ Len(f.resp.elems) > 0
        received == SelectSeq(fetches, nonEmpty)
        pages == [i \in 1..Len(received) |-> received[i].resp]
    IN  /\ pc = "loop" => result = pages
        /\ (pc = "done" /\ tier \notin SpecialTiers)
              => /\ result = pages
                 /\ files = <<[rows |-> ConcatElems(pages)]>>
        /\ (pc = "done" /\ tier \in SpecialTiers)
              => /\ Len(pages) = 1
                 /\ result = pages[1].entries
                 /\ files = <<[rows |-> pages[1].entries]>>

C10_Witness ==
    /\ pc = "done"
    /\ Divisioned
    /\ Len(divisions) = 2
    /\ Len(fetches) = 5
    /\ Len(result) = 3
    /\ Len(files[1].rows) = 3 * PageSize
    /\ files[1].rows[1][1] = divisions[1]
    /\ files[1].rows[3 * PageSize][1] = divisions[2]

\* C11: a validated run whose loop has ended without a failed fetch has written
\* exactly one file, and no file exists while the loop is still fetching.
C11_OneFileAfterLastFetch ==
    /\ (Called /\ err = <<>> /\ api_key # "" /\ pc \in {"done", "aborted"} /\ NoFailure)
          => /\ pc = "done"
             /\ Len(files) = 1
    /\ pc = "loop" => files = <<>>

\* the labels joined with one hyphen between every two adjacent elements
RECURSIVE JoinHyphen(_)
JoinHyphen(divs) ==
    IF Len(divs) = 0 THEN <<>>
    ELSE IF Len(divs) = 1 THEN divs[1]
    ELSE (divs[1] \o <<"-">>) \o JoinHyphen(Tail(divs))

\* C12: the file of a finished run is named with the token TIER for one
\* division or a special tier and the hyphen-joined divisions otherwise, and
\* with ALL, PAGES-ALL or PAGE-1 for special, AllPages and FirstPageOnly.
C12_FilenameTokens ==
    (pc = "done" /\ (tier \notin SpecialTiers \/ divisions = <<>>))
        => /\ filename.tier = tier
           /\ filename.divisions =
                (IF Len(divisions) = 1 \/ tier \in SpecialTiers
                 THEN <<"T", "I", "E", "R">> ELSE JoinHyphen(divisions))
           /\ filename.pages =
                (IF tier \in SpecialTiers THEN "ALL"
                 ELSE IF get_all = "True" THEN "PAGES-ALL" ELSE "PAGE-1")

\* the script was run with a command line
ViaMain == args # <<>>

\* the pieces joined with one comma between every two adjacent pieces
RECURSIVE JoinComma(_)
JoinComma(pieces) ==
    IF Len(pieces) = 0 THEN <<>>
    ELSE IF Len(pieces) = 1 THEN pieces[1]
    ELSE (pieces[1] \o <<",">>) \o JoinComma(Tail(pieces))

\* 3 positional arguments and a special tier
ThreeArgsSpecial == Len(args) = 4 /\ args[4] \in SpecialTiers

\* 5 positional arguments and a tier that is not special
FiveArgsNotSpecial == Len(args) = 6 /\ args[4] \notin SpecialTiers

\* C13: from the command line the function is called exactly for 3 positional
\* arguments with a special tier (no divisions, page mode 'True') or 5 with a
\* tier that is not special (divisions the comma-separated pieces of the fourth
\* argument); anything else ends in the usage message with nothing validated,
\* fetched or written.
C13_ArityGatesCollection ==
    (ViaMain /\ pc # "main")
        => /\ Called <=> (ThreeArgsSpecial \/ FiveArgsNotSpecial)
           /\ pc = "usage" <=> ~(ThreeArgsSpecial \/ FiveArgsNotSpecial)
           /\ (Called /\ Len(args) = 4)
                => /\ queue = args[3] /\ tier = args[4]
                   /\ divisions = <<>>
                   /\ get_all = "True"
           /\ (Called /\ Len(args) = 6)
                => /\ queue = args[3] /\ tier = args[4]
                   /\ get_all = args[6]
                   /\ Len(divisions) >= 1
                   /\ JoinComma(divisions) = args[5]
                   /\ \A i \in 1..Len(divisions) :
                        \A k \in 1..Len(divisions[i]) : divisions[i][k] # ","
           /\ pc = "usage"
                => /\ tier = "" /\ queue = "" /\ get_all = ""
                   /\ err = <<>>
                   /\ fetches = <<>>
                   /\ files = <<>>

C13_Witness ==
    /\ ViaMain
    /\ pc = "usage"
    /\ Len(args) = 4
    /\ args[4] = "GOLD"
    /\ fetches = <<>>

\* t is not a tier literal but has the letters of one
DiffersOnlyInCase(t) ==
    /\ t \notin Range(TIERS)
    /\ \E i \in 1..Len(TIERS) : Lower(TIERS[i]) = Lower(t)

\* C14: a tier that differs from a tier literal only in letter case is never
\* accepted: with 3 or 5 positional arguments the run ends in the usage message
\* or in the validation error naming the tier, and a call of the function with
\* such a tier ends in that error; nothing is fetched, nothing written.
C14_CaseSensitiveTier ==
    /\ (ViaMain /\ pc # "main" /\ Len(args) \in {4, 6} /\ DiffersOnlyInCase(args[4]))
          => /\ pc \in {"usage", "invalid"}
             /\ Len(args) = 4 => pc = "usage"
             /\ Len(args) = 6 => pc = "invalid"
             /\ fetches = <<>>
             /\ files = <<>>
    /\ (Called /\ DiffersOnlyInCase(tier))
          => /\ pc = "invalid"
             /\ CountMsg("tier") = 1
             /\ fetches = <<>>
             /\ files = <<>>

C14_Witness ==
    /\ ViaMain
    /\ Len(args) = 6
    /\ args[4] = "gold"
    /\ pc = "invalid"
    /\ Len(err) = 1
    /\ err[1].rule = "tier"

(***************************************************************************)
(* The specified collector: the machine of the specification's section 4.2 *)
(* with state (divisionIndex, pageNumber, done), positions counted from 0. *)
(***************************************************************************)
SpecInit == [divisionIndex |-> 0, pageNumber |-> 1, done |-> FALSE]

\* the transition rule per fetch, for n divisions
SpecNext(s, nonEmpty, allPages, n) ==
    IF s.done THEN s
    ELSE IF nonEmpty /\ allPages THEN [s EXCEPT !.pageNumber = s.pageNumber + 1]
    ELSE IF s.divisionIndex = n - 1 THEN [s EXCEPT !.done = TRUE]
    ELSE [s EXCEPT !.divisionIndex = s.divisionIndex + 1, !.pageNumber = 1]

\* the machine's state after the responses of the first k fetches
RECURSIVE SpecAfter(_)
SpecAfter(k) ==
    IF k = 0 THEN SpecInit
    ELSE SpecNext(SpecAfter(k - 1), Len(fetches[k].resp.elems) > 0,
                  get_all = "True", Len(divisions))

\* C15: on the same responses the loop requests what the specified machine
\* requests (the label at the machine's position, the machine's page), fetches
\* only while the machine is not done, and has ended exactly when it is done.
C15_RefinesSpecMachine ==
    (Divisioned /\ api_key # "" /\ NoFailure)
        => /\ \A k \in 1..Len(fetches) :
                LET s == SpecAfter(k - 1) IN
                /\ ~s.done
                /\ fetches[k].req = [division |-> divisions[s.divisionIndex + 1],
                                     page |-> s.pageNumber]
           /\ pc # "loop" <=> SpecAfter(Len(fetches)).done

\* the k-th response was decoded and empty
EmptyAt(k) == ~fetches[k].raised /\ Len(fetches[k].resp.elems) = 0

\* the place in the division list of the k-th fetch, counted from 1: one place
\* further for every earlier fetch that ended its division (an empty response,
\* or any response in FirstPageOnly mode)
PositionOf(k) ==
    1 + Cardinality({i \in 1..(k - 1) : EmptyAt(i) \/ get_all = "False"})

\* C16: an empty response adds nothing to the result; for a division that is
\* not the last of the list the loop goes on and the next fetch is page 1 of
\* the next division of the list, for the last one the loop ends normally.
C16_EmptyResponseMovesOn ==
    (Divisioned /\ api_key # "" /\ NoFailure)
        => /\ pc \in {"loop", "done"}
           /\ Len(result) = Cardinality({i \in 1..Len(fetches) : ~EmptyAt(i)})
           /\ \A k \in 1..Len(fetches) :
                EmptyAt(k)
                    => IF PositionOf(k) < Len(divisions)
                       THEN /\ k = Len(fetches) => pc = "loop"
                            /\ k < Len(fetches)
                                 => fetches[k + 1].req =
                                        [division |-> divisions[PositionOf(k) + 1],
                                         page |-> 1]
                       ELSE /\ PositionOf(k) = Len(divisions)
                            /\ k = Len(fetches)
                            /\ pc = "done"

\* the k-th fetch stays in its division: AllPages mode and a non-empty response
PagesOnAt(k) ==
    get_all = "True" /\ ~fetches[k].raised /\ Len(fetches[k].resp.elems) > 0

\* C17: on a divisioned tier the first request is for page 1; after a non-empty
\* page in AllPages mode the next request is the next page of the same
\* division, and after every other response (the division is left) it is page
\* 1; a change of division always starts at page 1; no request is below page 1
\* and FirstPageOnly requests only page 1.  The counter is read while the loop
\* runs: the same holds of page between fetches.
C17_PageDiscipline ==
    (Called /\ err = <<>> /\ tier \notin SpecialTiers)
        => LET n == Len(fetches) IN
           /\ n >= 1 => fetches[1].req.page = 1
           /\ \A k \in 1..n :
                /\ fetches[k].req.page >= 1
                /\ get_all = "False" => fetches[k].req.page = 1
           /\ \A k \in 1..(n - 1) :
                /\ PagesOnAt(k)
                     => /\ fetches[k + 1].req.division = fetches[k].req.division
                        /\ fetches[k + 1].req.page = fetches[k].req.page + 1
                /\ ~PagesOnAt(k) => fetches[k + 1].req.page = 1
                /\ fetches[k + 1].req.division # fetches[k].req.division
                     => fetches[k + 1].req.page = 1
           /\ pc = "loop"
                => /\ page >= 1
                   /\ get_all = "False" => page = 1
                   /\ n = 0 => page = 1
                   /\ (n >= 1 /\ PagesOnAt(n)) => page = fetches[n].req.page + 1
                   /\ (n >= 1 /\ ~PagesOnAt(n)) => page = 1

C17_Witness ==
    /\ Divisioned /\ get_all = "True" /\ api_key # ""
    /\ Len(divisions) = 2
    /\ Len(fetches) >= 4
    /\ fetches[2].req.page = 2
    /\ fetches[3].req.page = 3
    /\ fetches[4].req.page = 1
    /\ fetches[3].req.division = divisions[1]
    /\ fetches[4].req.division = divisions[2]
    /\ divisions[1] # divisions[2]
====
